---- MODULE Spec2Model ----
(***************************************************************************)
(* Model of merkletrees.js: hashData, buildMerkleTree, generateMerkleProof *)
(* and verifyEmail, driven as the script at the end of the file drives     *)
(* them (build, then generate, then verify).                               *)
(*                                                                         *)
(* Strings.  A JavaScript string is a sequence of chunks.  A chunk is a    *)
(* record [raw, pre]: a chunk with raw >= 1 is a piece of plain text (one  *)
(* e-mail address), and a chunk with raw = 0 is the 64 hex characters of   *)
(* the SHA-256 digest of the string pre.  String concatenation (+) is \o.  *)
(* hashData is therefore collision-free: two digests are equal exactly     *)
(* when the hashed strings are equal.                                      *)
(*                                                                         *)
(* Arrays are sequences; the code's 0-based index i is element i + 1.      *)
(***************************************************************************)
EXTENDS Integers, Sequences, FiniteSets

\* Bounds of the model.
NumItems == 6      \* distinct e-mail addresses
MaxLen == 6        \* longest emailList
PairLen == 4       \* longest leaf sequence in SpecPair
MaxStack == 6      \* call-stack depth at which the engine throws RangeError

VARIABLES
    emailList,      \* script: emailList (line 60)
    hashedEmails,   \* script: hashedEmails (line 61)
    build,          \* buildMerkleTree: the current activation and its outcome
    other,          \* a second, independent buildMerkleTree call (SpecPair)
    gen,            \* generateMerkleProof: locals and outcome
    ver             \* verifyEmail: arguments and outcome

vars == <<emailList, hashedEmails, build, other, gen, ver>>

----------------------------------------------------------------------------
\* Strings and hashing

Items == 1..NumItems

\* The string of e-mail address n.
Email(n) == <<[raw |-> n, pre |-> <<>>]>>

\* hashData (lines 3-5): the hex digest of data, a one-chunk string.
hashData(data) == <<[raw |-> 0, pre |-> data]>>

\* array[i] for a 0-based index i.
At(arr, i) == arr[i + 1]

\* Array.prototype.indexOf: first 0-based index of x, or -1.
indexOf(arr, x) ==
    IF \E k \in 1..Len(arr) : arr[k] = x
    THEN (CHOOSE k \in 1..Len(arr) :
            arr[k] = x /\ \A j \in 1..(k - 1) : arr[j] # x) - 1
    ELSE -1

\* emailList.map(hashData) (line 61)
MapHash(list) == [k \in 1..Len(list) |-> hashData(list[k])]

----------------------------------------------------------------------------
\* buildMerkleTree (lines 7-18)

\* BuildLoop with the operands of line 14 swapped (right + left).
RECURSIVE BuildLoopSwapped(_, _, _)
BuildLoopSwapped(level, i, nextLevel) ==
    IF i < Len(level)
    THEN LET left == At(level, i)
             right == IF i + 1 < Len(level) THEN At(level, i + 1) ELSE left
         IN BuildLoopSwapped(level, i + 2,
                             Append(nextLevel, hashData(right \o left)))
    ELSE nextLevel

\* The for loop of lines 10-15, from loop variable i with nextLevel so far.
RECURSIVE BuildLoop(_, _, _)
BuildLoop(level, i, nextLevel) ==
    IF i < Len(level)
    THEN LET left == At(level, i)
             right == IF i + 1 < Len(level) THEN At(level, i + 1) ELSE left
         IN BuildLoop(level, i + 2, Append(nextLevel, hashData(left \o right)))
    ELSE nextLevel

\* BaseRoot with the single leaf hashed with itself.
BaseRootHashed(level) == hashData(level[1] \o level[1])

\* Line 8: the root returned for a one-element level.
BaseRoot(level) == level[1]

\* An activation about to run on the array arg.
Called(arg) ==
    [arg |-> arg, depth |-> 0, status |-> "running",
     root |-> <<>>, tree |-> <<>>, levels |-> <<arg>>]

NotCalled ==
    [arg |-> <<>>, depth |-> 0, status |-> "idle",
     root |-> <<>>, tree |-> <<>>, levels |-> <<>>]

\* Line 8: the base case returns {tree, root}.
ReturnOf(act) ==
    [act EXCEPT !.status = "returned", !.root = BaseRoot(act.arg),
                !.tree = act.arg]

\* Lines 10-17: fold the level and call buildMerkleTree on the result.
RecurseOf(act) ==
    LET next == BuildLoop(act.arg, 0, <<>>)
    IN [act EXCEPT !.arg = next, !.depth = act.depth + 1,
                   !.levels = Append(act.levels, next)]

BuildReturn ==
    /\ build.status = "running"
    /\ Len(build.arg) = 1
    /\ build' = ReturnOf(build)
    /\ UNCHANGED <<emailList, hashedEmails, other, gen, ver>>

BuildRecurse ==
    /\ build.status = "running"
    /\ Len(build.arg) # 1
    /\ build.depth < MaxStack
    /\ build' = RecurseOf(build)
    /\ UNCHANGED <<emailList, hashedEmails, other, gen, ver>>

\* Line 17 with no stack left: the engine throws RangeError.
BuildOverflow ==
    /\ build.status = "running"
    /\ Len(build.arg) # 1
    /\ build.depth >= MaxStack
    /\ build' = [build EXCEPT !.status = "RangeError"]
    /\ UNCHANGED <<emailList, hashedEmails, other, gen, ver>>

OtherReturn ==
    /\ build.status = "returned"
    /\ other.status = "running"
    /\ Len(other.arg) = 1
    /\ other' = ReturnOf(other)
    /\ UNCHANGED <<emailList, hashedEmails, build, gen, ver>>

OtherRecurse ==
    /\ build.status = "returned"
    /\ other.status = "running"
    /\ Len(other.arg) # 1
    /\ other.depth < MaxStack
    /\ other' = RecurseOf(other)
    /\ UNCHANGED <<emailList, hashedEmails, build, gen, ver>>

----------------------------------------------------------------------------
\* generateMerkleProof (lines 20-48)

\* Line 29-32: the index of the sibling of index in level.
PairIndex(level, index) ==
    LET pairIndex == IF index % 2 = 0 THEN index + 1 ELSE index - 1
    IN IF pairIndex >= Len(level) THEN index ELSE pairIndex

\* StepFor with the side test of line 33 inverted.
StepForFlipped(level, index) ==
    LET pairIndex == PairIndex(level, index)
    IN [hash |-> At(level, pairIndex),
        position |-> IF pairIndex < index THEN "right" ELSE "left"]

\* Line 33: the proof step pushed for index in level.
StepFor(level, index) ==
    LET pairIndex == PairIndex(level, index)
    IN [hash |-> At(level, pairIndex),
        position |-> IF pairIndex > index THEN "right" ELSE "left"]

\* ReduceLevel with an odd level's unpaired last entry dropped.
RECURSIVE ReduceLevelDrop(_, _, _)
ReduceLevelDrop(src, i, acc) ==
    IF i >= Len(src) THEN acc
    ELSE IF i % 2 = 0 /\ i + 1 < Len(src)
         THEN ReduceLevelDrop(src, i + 1,
                  Append(acc, hashData(At(src, i) \o At(src, i + 1))))
         ELSE ReduceLevelDrop(src, i + 1, acc)

\* Lines 37-44: the reduce callback applied from element i with acc so far.
RECURSIVE ReduceLevel(_, _, _)
ReduceLevel(src, i, acc) ==
    IF i >= Len(src) THEN acc
    ELSE IF i % 2 = 0
         THEN LET left == At(src, i)
                  right == IF i + 1 < Len(src) THEN At(src, i + 1) ELSE left
              IN ReduceLevel(src, i + 1, Append(acc, hashData(left \o right)))
         ELSE ReduceLevel(src, i + 1, acc)

\* NotFound testing for index 0 instead of -1.
NotFoundZero(index) == index = 0

\* Lines 22-25: whether the lookup of targetHash fails.
NotFound(index) == index = -1

GenIdle ==
    [status |-> "idle", email |-> <<>>, targetHash |-> <<>>, index |-> 0,
     level |-> <<>>, proof |-> <<>>, isNull |-> FALSE,
     levels |-> <<>>, indices |-> <<>>]

\* Lines 21-27: the call, up to the first test of the while condition.
GenCall ==
    /\ build.status = "returned"
    /\ gen.status = "idle"
    /\ \E n \in Items :
         LET targetHash == hashData(Email(n))
             index == indexOf(hashedEmails, targetHash)
         IN gen' = IF NotFound(index)
                   THEN [gen EXCEPT !.status = "returned", !.isNull = TRUE,
                                    !.email = Email(n),
                                    !.targetHash = targetHash,
                                    !.index = index,
                                    !.level = hashedEmails]
                   ELSE [gen EXCEPT !.status = "loop", !.email = Email(n),
                                    !.targetHash = targetHash,
                                    !.index = index,
                                    !.level = hashedEmails,
                                    !.levels = <<hashedEmails>>,
                                    !.indices = <<index>>]
    /\ UNCHANGED <<emailList, hashedEmails, build, other, ver>>

\* Lines 28-45: one iteration of the while loop.
GenIterate ==
    /\ gen.status = "loop"
    /\ Len(gen.level) > 1
    /\ LET next == ReduceLevel(gen.level, 0, <<>>)
       IN gen' = [gen EXCEPT
                    !.proof = Append(gen.proof, StepFor(gen.level, gen.index)),
                    !.index = gen.index \div 2,
                    !.level = next,
                    !.levels = Append(gen.levels, next),
                    !.indices = Append(gen.indices, gen.index \div 2)]
    /\ UNCHANGED <<emailList, hashedEmails, build, other, ver>>

\* Line 47: the loop condition fails and the proof is returned.
GenReturn ==
    /\ gen.status = "loop"
    /\ ~(Len(gen.level) > 1)
    /\ gen' = [gen EXCEPT !.status = "returned"]
    /\ UNCHANGED <<emailList, hashedEmails, build, other, ver>>

----------------------------------------------------------------------------
\* verifyEmail (lines 50-58)

\* FoldStep ignoring the step's position.
FoldStepNoSide(computedHash, step) == hashData(computedHash \o step.hash)

\* Lines 53-54: the forEach callback.
FoldStep(computedHash, step) ==
    LET pair == IF step.position = "left"
                THEN step.hash \o computedHash
                ELSE computedHash \o step.hash
    IN hashData(pair)

\* Line 52: proof.forEach from element k (1-based) on.
RECURSIVE ForEach(_, _, _)
ForEach(proof, k, computedHash) ==
    IF k > Len(proof) THEN computedHash
    ELSE ForEach(proof, k + 1, FoldStep(computedHash, proof[k]))

verifyEmail(email, proof, root) ==
    ForEach(proof, 1, hashData(email)) = root

VerIdle ==
    [status |-> "idle", email |-> <<>>, proof |-> <<>>, root |-> <<>>,
     isValid |-> FALSE]

\* Position tags a caller may put in a proof step; "up" is not a side.
Tags == {"left", "right", "up"}

Suffixes(p) == {SubSeq(p, k, Len(p)) : k \in 1..(Len(p) + 1)}

\* Strings a caller can form from two leaf digests.
PairStrings ==
    {hashedEmails[k] \o hashedEmails[k + 1] : k \in 1..(Len(hashedEmails) - 1)}
    \cup {hashedEmails[k] \o hashedEmails[k] : k \in {Len(hashedEmails)}}

\* The proof with the tag of step k replaced.
Retag(p, k, tag) == [p EXCEPT ![k].position = tag]

\* The (email, proof) arguments verifyEmail is called with: the script's own
\* (lines 64-69), and those of a caller that forges the item or the tags.
VerifyArgs ==
    {<<gen.email, gen.proof>>}
    \cup {<<e, p>> : e \in PairStrings, p \in Suffixes(gen.proof)}
    \cup {<<gen.email, Retag(gen.proof, k, t)>> :
            k \in 1..Len(gen.proof), t \in Tags}

VerifyCall ==
    /\ gen.status = "returned"
    /\ ~gen.isNull
    /\ ver.status = "idle"
    /\ \E a \in VerifyArgs :
         ver' = [status |-> "returned", email |-> a[1], proof |-> a[2],
                 root |-> build.root,
                 isValid |-> verifyEmail(a[1], a[2], build.root)]
    /\ UNCHANGED <<emailList, hashedEmails, build, other, gen>>

----------------------------------------------------------------------------
\* Specifications

Lists(lo, hi) == UNION {[1..n -> Items] : n \in lo..hi}

\* Addresses are interchangeable names, so the script's list is drawn up to
\* renaming: the first occurrences of the addresses appear in increasing order.
FirstUse(l) ==
    \A k \in 1..Len(l) :
        \/ l[k] = 1
        \/ \E j \in 1..(k - 1) : l[j] = l[k] - 1 \/ l[j] >= l[k]

Emails(l) == [k \in 1..Len(l) |-> Email(l[k])]

EmailLists(lo, hi) == {Emails(l) : l \in {x \in Lists(lo, hi) : FirstUse(x)}}

\* The script: lines 60-62 have run up to the call of buildMerkleTree.
Init ==
    /\ emailList \in EmailLists(0, MaxLen)
    /\ hashedEmails = MapHash(emailList)
    /\ build = Called(hashedEmails)
    /\ other = NotCalled
    /\ gen = GenIdle
    /\ ver = VerIdle

Next ==
    \/ BuildReturn
    \/ BuildRecurse
    \/ BuildOverflow
    \/ GenCall
    \/ GenIterate
    \/ GenReturn
    \/ VerifyCall

Spec == Init /\ [][Next]_vars

\* Two calls of buildMerkleTree on two non-empty leaf sequences.
InitPair ==
    /\ emailList \in EmailLists(1, PairLen)
    /\ hashedEmails = MapHash(emailList)
    /\ build = Called(hashedEmails)
    /\ \E l \in Lists(1, PairLen) : other = Called(MapHash(Emails(l)))
    /\ gen = GenIdle
    /\ ver = VerIdle

NextPair ==
    \/ BuildReturn
    \/ BuildRecurse
    \/ OtherReturn
    \/ OtherRecurse

SpecPair == InitPair /\ [][NextPair]_vars

----------------------------------------------------------------------------
\* Properties

Distinct(list) ==
    \A j, k \in 1..Len(list) : j # k => list[j] # list[k]

IsMember(e, list) == \E k \in 1..Len(list) : list[k] = e

\* The least k with 2^k >= n.
CeilLog2(n) ==
    CHOOSE k \in 0..n : 2 ^ k >= n /\ \A j \in 0..(k - 1) : 2 ^ j < n

\* verifyEmail was called as the script calls it (lines 65-69).
ScriptVerify ==
    /\ ver.status = "returned"
    /\ ver.email = gen.email
    /\ ver.proof = gen.proof
    /\ ver.root = build.root

HasInvalidTag(proof) ==
    \E k \in 1..Len(proof) : proof[k].position \notin {"left", "right"}

\* Step k of the generator's proof was recorded for the unpaired last entry
\* of an odd-length level.
SelfPaired(k) ==
    /\ Len(gen.levels[k]) % 2 = 1
    /\ gen.indices[k] = Len(gen.levels[k]) - 1

\* C1. Round trip: for a non-empty list of distinct items and an item of the
\* list, verifyEmail of the item with the generated proof and the built root
\* returns true.
C1_RoundTrip ==
    (ScriptVerify /\ Distinct(emailList) /\ IsMember(ver.email, emailList))
        => ver.isValid

\* An odd-length list of distinct items whose last item was verified: the
\* self-paired case of the round trip.
C1_Witness ==
    /\ ScriptVerify
    /\ Distinct(emailList)
    /\ Len(emailList) = 5
    /\ ver.email = emailList[5]
    /\ ver.isValid

\* C2. If verifyEmail(e, p, root) returns true for the built root, then e is
\* an element of the item list.
C2_ValidImpliesMember ==
    (ver.status = "returned" /\ ver.root = build.root /\ ver.isValid)
        => IsMember(ver.email, emailList)

\* C3. Two different non-empty leaf-digest sequences have different roots.
C3_RootCommits ==
    (/\ build.status = "returned"
     /\ other.status = "returned"
     /\ build.levels[1] # other.levels[1])
        => build.root # other.root

\* C4. buildMerkleTree on an empty leaf sequence ends in InvalidInput and
\* returns no root.
C4_EmptyIsInvalidInput ==
    (Len(hashedEmails) = 0 /\ build.status # "running")
        => build.status = "InvalidInput"

\* C5. verifyEmail on a proof holding a step whose tag is neither left nor
\* right ends in InvalidProof: it returns neither true nor false.
C5_BadTagIsInvalidProof ==
    (ver.status # "idle" /\ HasInvalidTag(ver.proof))
        => ver.status = "InvalidProof"

\* C6. For a leaf sequence of length >= 1 and an item whose digest is not in
\* it, generateMerkleProof returns null and no proof, not even an empty one.
C6_NonMembership ==
    (/\ gen.status # "idle"
     /\ Len(hashedEmails) >= 1
     /\ ~IsMember(hashData(gen.email), hashedEmails))
        => (gen.status = "returned" /\ gen.isNull /\ gen.levels = <<>>)

C6_Witness ==
    /\ gen.status = "returned"
    /\ gen.isNull
    /\ Len(hashedEmails) = 5
    /\ ~IsMember(hashData(gen.email), hashedEmails)

\* C7. The proof returned for a member of a leaf sequence of length n has
\* exactly ceil(log2(n)) steps, and the loop ran that many iterations.
C7_ProofLength ==
    (gen.status = "returned" /\ ~gen.isNull)
        => /\ Len(gen.proof) = CeilLog2(Len(hashedEmails))
           /\ Len(gen.levels) - 1 = CeilLog2(Len(hashedEmails))

C7_Witness ==
    /\ gen.status = "returned"
    /\ ~gen.isNull
    /\ Len(hashedEmails) = 5
    /\ Len(gen.proof) = 3

\* C8. For a one-element leaf sequence [d] the builder returns root d, not a
\* hash of d with itself, and verifying the item with the empty proof
\* against that root returns true.
C8_SingleLeaf ==
    /\ (Len(hashedEmails) = 1 /\ build.status = "returned")
          => (build.root = hashedEmails[1] /\ build.depth = 0)
    /\ (/\ Len(hashedEmails) = 1
        /\ ver.status = "returned"
        /\ ver.email = emailList[1]
        /\ ver.proof = <<>>
        /\ ver.root = hashedEmails[1])
          => ver.isValid

C8_Witness ==
    /\ Len(hashedEmails) = 1
    /\ build.status = "returned"
    /\ ver.status = "returned"
    /\ ver.email = emailList[1]
    /\ ver.proof = <<>>
    /\ ver.root = hashedEmails[1]
    /\ ver.isValid

\* C9. The k-th level the generator derives equals the k-th level the
\* builder derives, each the pairwise fold of the one before with ceil(n/2)
\* entries, and the generator's final level is the builder's root alone.
C9_SameFold ==
    /\ \A k \in 1..Len(gen.levels) :
          /\ k <= Len(build.levels)
          /\ gen.levels[k] = build.levels[k]
          /\ k > 1 => Len(gen.levels[k]) = (Len(gen.levels[k - 1]) + 1) \div 2
    /\ (gen.status = "returned" /\ ~gen.isNull)
          => (gen.level = <<build.root>> /\ gen.levels = build.levels)

\* The generator has folded an odd inner level of a five-leaf tree.
C9_Witness ==
    /\ gen.status = "returned"
    /\ Len(gen.levels) = 4
    /\ Len(gen.levels[2]) = 3
    /\ gen.level = <<build.root>>

\* C10. At every test of the while condition, 0 <= index < length of the
\* level, and folding the steps recorded so far onto the target's leaf
\* digest by the verifier's rule gives the level's entry at index; a
\* self-pair step holds the node itself with side left.
C10_LoopInvariant ==
    (gen.status = "loop" \/ (gen.status = "returned" /\ ~gen.isNull))
        => /\ 0 <= gen.index
           /\ gen.index < Len(gen.level)
           /\ ForEach(gen.proof, 1, gen.targetHash) = At(gen.level, gen.index)
           /\ \A k \in 1..Len(gen.proof) :
                SelfPaired(k) =>
                    gen.proof[k] = [hash |-> At(gen.levels[k], gen.indices[k]),
                                    position |-> "left"]

\* The loop has recorded a self-pair step and gone on to a further level.
C10_Witness ==
    /\ gen.status = "loop"
    /\ Len(gen.proof) >= 2
    /\ SelfPaired(1)
    /\ Len(gen.level) > 1

====
